---------------------------- MODULE Spec2Model ----------------------------
(* Model of the SQL text generators of utility_manager/utilities.py:       *)
(* sql_create_database, df_to_sql_create_table_query and                   *)
(* sql_generate_foreign_keys.  A Python str is a sequence of one-character *)
(* strings, so that replace, split, join and the f-strings are computed    *)
(* character by character.                                                 *)
EXTENDS Integers, Sequences, FiniteSets, TLC

VARIABLES df, caller_keys, tcall, fk, db

vars == <<df, caller_keys, tcall, fk, db>>

-----------------------------------------------------------------------------
(* Bounds of the inputs that are enumerated.                               *)
MaxCols == 2
MaxKeys == 2
MaxGroups == 2
MaxPairs == 2
MaxDbName == 4

(* Sequences over S of length 0..n.                                        *)
SeqUpTo(S, n) == UNION {[1..m -> S] : m \in 0..n}

ColumnNames == {<<"a">>, <<"a", "-", "b">>, <<"a", "_", "b">>}
DTypes == {"int64", "bool"}
TableNames == {<<"t">>, <<"t", "-", "u">>}
DbChars == {"s", "h", "o", "p"}
FkTableNames == {<<"o">>}
FkColumns == {<<"c">>, <<"d">>}
FkRefs == {<<"u", ".", "i">>, <<"v", ".">>, <<"u">>, <<"u", ".", "i", ".", "j">>}

-----------------------------------------------------------------------------
(* Python string primitives used by the generators.                        *)

\* the backquote character of the f-strings (a string of the module cannot hold it)
BQ == "backquote"

\* str.replace(old, new) for one-character old and new
Replace(s, old, new) == [i \in 1..Len(s) |-> IF s[i] = old THEN new ELSE s[i]]

\* sep.join(items)
RECURSIVE join(_, _)
join(sep, items) ==
  IF items = <<>> THEN <<>>
  ELSE IF Len(items) = 1 THEN items[1]
  ELSE items[1] \o sep \o join(sep, Tail(items))

\* s.split(sep, 1): splits at the first separator only
split_once(s, sep) ==
  IF \A i \in 1..Len(s) : s[i] # sep THEN <<s>>
  ELSE LET i == CHOOSE i \in 1..Len(s) :
                  s[i] = sep /\ \A j \in 1..(i - 1) : s[j] # sep
       IN <<SubSeq(s, 1, i - 1), SubSeq(s, i + 1, Len(s))>>

\* s.split(sep) for a one-character sep
RECURSIVE split(_, _)
split(s, sep) ==
  IF \A i \in 1..Len(s) : s[i] # sep THEN <<s>>
  ELSE LET i == CHOOSE i \in 1..Len(s) :
                  s[i] = sep /\ \A j \in 1..(i - 1) : s[j] # sep
       IN <<SubSeq(s, 1, i - 1)>> \o split(SubSeq(s, i + 1, Len(s)), sep)

-----------------------------------------------------------------------------
(* sql_create_database                                                     *)

\* the USE command appended without its newline
sql_create_database_bare_use(db_name, drop_db) ==
  LET c1 == IF drop_db
            THEN <<<<"D", "R", "O", "P", " ", "D", "A", "T", "A", "B", "A", "S", "E", " ", "I", "F", " ", "E", "X", "I", "S", "T", "S", " ">> \o db_name \o <<";">>>>
            ELSE <<>>
      c2 == Append(c1, <<"C", "R", "E", "A", "T", "E", " ", "D", "A", "T", "A", "B", "A", "S", "E", " ">> \o db_name \o <<";">>)
      c3 == Append(c2, <<"U", "S", "E", " ">> \o db_name \o <<";">>)
  IN join(<<"\n">>, c3)

sql_create_database(db_name, drop_db) ==
  LET c0 == <<>>
      c1 == IF drop_db
            THEN Append(c0, <<"D", "R", "O", "P", " ", "D", "A", "T", "A", "B", "A", "S", "E", " ", "I", "F", " ", "E", "X", "I", "S", "T", "S", " ">> \o db_name \o <<";">>)
            ELSE c0
      c2 == Append(c1, <<"C", "R", "E", "A", "T", "E", " ", "D", "A", "T", "A", "B", "A", "S", "E", " ">> \o db_name \o <<";">>)
      c3 == Append(c2, <<"U", "S", "E", " ">> \o db_name \o <<";", "\n">>)
  IN join(<<"\n">>, c3)

-----------------------------------------------------------------------------
(* df_to_sql_create_table_query                                            *)

\* the column labels left as they are
NormalizedColumns_raw(columns) == columns

\* df.columns = [c.replace('-', '_') for c in df.columns]
NormalizedColumns(columns) ==
  [i \in 1..Len(columns) |-> Replace(columns[i], "-", "_")]

\* the primary keys left as they are
NormalizedKeys_raw(primary_keys) == primary_keys

\* primary_keys = [key.replace('-', '_') for key in primary_keys]
NormalizedKeys(primary_keys) ==
  [i \in 1..Len(primary_keys) |-> Replace(primary_keys[i], "-", "_")]

QueryHeader(drop_table, table_name) ==
  IF drop_table
  THEN <<"D", "R", "O", "P", " ", "T", "A", "B", "L", "E", " ", "I", "F", " ", "E", "X", "I", "S", "T", "S", " ">> \o table_name \o <<";", "\n">>
       \o <<"C", "R", "E", "A", "T", "E", " ", "T", "A", "B", "L", "E", " ">> \o table_name \o <<" ", "(", "\n">>
  ELSE <<"C", "R", "E", "A", "T", "E", " ", "T", "A", "B", "L", "E", " ">> \o table_name \o <<" ", "(", "\n">>

\* type_mapping.get(str(dtype), 'VARCHAR(255)')
type_mapping(dtype) ==
  CASE dtype = "object" -> <<"V", "A", "R", "C", "H", "A", "R", "(", "2", "5", "5", ")">>
    [] dtype = "int64" -> <<"B", "I", "G", "I", "N", "T">>
    [] dtype = "float64" -> <<"D", "O", "U", "B", "L", "E">>
    [] dtype = "datetime64[ns]" -> <<"D", "A", "T", "E", "T", "I", "M", "E">>
    [] OTHER -> <<"V", "A", "R", "C", "H", "A", "R", "(", "2", "5", "5", ")">>

\* column in primary_keys
InList(x, list) == \E i \in 1..Len(list) : list[i] = x

\* the loop run over the columns in reverse
column_definitions_reversed(columns, dtypes, primary_keys) ==
  [i \in 1..Len(columns) |->
     LET j == Len(columns) + 1 - i
     IN IF InList(columns[j], primary_keys)
        THEN <<" ", " ", BQ>> \o columns[j] \o <<BQ, " ">> \o type_mapping(dtypes[j]) \o <<" ", "N", "O", "T", " ", "N", "U", "L", "L">>
        ELSE <<" ", " ", BQ>> \o columns[j] \o <<BQ, " ">> \o type_mapping(dtypes[j]) \o <<" ", "N", "U", "L", "L">>]

\* the loop over df.dtypes.items(), columns and keys already normalized
column_definitions(columns, dtypes, primary_keys) ==
  [i \in 1..Len(columns) |->
     IF InList(columns[i], primary_keys)
     THEN <<" ", " ", BQ>> \o columns[i] \o <<BQ, " ">> \o type_mapping(dtypes[i]) \o <<" ", "N", "O", "T", " ", "N", "U", "L", "L">>
     ELSE <<" ", " ", BQ>> \o columns[i] \o <<BQ, " ">> \o type_mapping(dtypes[i]) \o <<" ", "N", "U", "L", "L">>]

primary_keys_str(primary_keys) ==
  join(<<",", " ">>, [i \in 1..Len(primary_keys) |-> <<BQ>> \o primary_keys[i] \o <<BQ>>])

\* one PRIMARY KEY clause appended per key
RECURSIVE PrimaryKeyClause_per_key(_)
PrimaryKeyClause_per_key(primary_keys) ==
  IF primary_keys = <<>> THEN <<>>
  ELSE <<",", "\n", " ", " ", "P", "R", "I", "M", "A", "R", "Y", " ", "K", "E", "Y", " ", "(", BQ>> \o Head(primary_keys) \o <<BQ, ")">>
       \o PrimaryKeyClause_per_key(Tail(primary_keys))

PrimaryKeyClause(primary_keys) ==
  IF primary_keys # <<>>
  THEN <<",", "\n", " ", " ", "P", "R", "I", "M", "A", "R", "Y", " ", "K", "E", "Y", " ", "(">> \o primary_keys_str(primary_keys) \o <<")">>
  ELSE <<>>

\* the index named after the bare key
RECURSIVE IndexClauses_bare_name(_)
IndexClauses_bare_name(primary_keys) ==
  IF primary_keys = <<>> THEN <<>>
  ELSE <<",", "\n", " ", " ", "I", "N", "D", "E", "X", " ", BQ>> \o Head(primary_keys) \o <<BQ, " ", "(", BQ>>
       \o Head(primary_keys) \o <<BQ, ")">> \o IndexClauses_bare_name(Tail(primary_keys))

RECURSIVE IndexClauses(_)
IndexClauses(primary_keys) ==
  IF primary_keys = <<>> THEN <<>>
  ELSE <<",", "\n", " ", " ", "I", "N", "D", "E", "X", " ", BQ>> \o Head(primary_keys) \o <<"_", "i", "d", "x", BQ, " ", "(", BQ>>
       \o Head(primary_keys) \o <<BQ, ")">> \o IndexClauses(Tail(primary_keys))

\* the call: the columns the DataFrame holds afterwards, and the returned query
df_to_sql_create_table_query(columns, dtypes, drop_table, primary_keys, table_name) ==
  LET cols == NormalizedColumns(columns)
      keys == NormalizedKeys(primary_keys)
  IN [columns |-> cols,
      query |-> QueryHeader(drop_table, table_name)
                \o join(<<",", "\n">>, column_definitions(cols, dtypes, keys))
                \o PrimaryKeyClause(keys)
                \o IndexClauses(keys)
                \o <<"\n", ")", ";">> \o <<"\n">>]

-----------------------------------------------------------------------------
(* sql_generate_foreign_keys                                               *)
(* column_foreign_keys is a list of dicts; a dict is the sequence of its   *)
(* (column, foreign_key) items in insertion order, with distinct columns.  *)

fk_statement(table_name, column, foreign_table, foreign_column) ==
  <<"A", "L", "T", "E", "R", " ", "T", "A", "B", "L", "E", " ">> \o table_name \o <<" ", "A", "D", "D", " ", "C", "O", "N", "S", "T", "R", "A", "I", "N", "T", " ", "f", "k", "_">> \o table_name \o <<"_">>
  \o column \o <<" ", "F", "O", "R", "E", "I", "G", "N", " ", "K", "E", "Y", " ", "(">> \o column \o <<")", " ", "R", "E", "F", "E", "R", "E", "N", "C", "E", "S", " ">> \o foreign_table
  \o <<"(">> \o foreign_column \o <<")", ";">>

\* the two nested loops; unpacking the split into two names raises ValueError
\* unless it has exactly two parts
RECURSIVE fk_loop(_, _, _, _, _)
fk_loop(table_name, column_foreign_keys, g, k, sql_statements) ==
  IF g > Len(column_foreign_keys)
  THEN [raised |-> FALSE, sql_statements |-> sql_statements]
  ELSE IF k > Len(column_foreign_keys[g])
  THEN fk_loop(table_name, column_foreign_keys, g + 1, 1, sql_statements)
  ELSE LET item == column_foreign_keys[g][k]
           parts == split(item.foreign_key, ".")
       IN IF Len(parts) # 2
          THEN [raised |-> TRUE, sql_statements |-> sql_statements]
          ELSE fk_loop(table_name, column_foreign_keys, g, k + 1,
                       Append(sql_statements,
                              fk_statement(table_name, item.column, parts[1], parts[2])))

\* the joined statements returned without the closing newline
sql_generate_foreign_keys_no_newline(table_name, column_foreign_keys) ==
  LET r == fk_loop(table_name, column_foreign_keys, 1, 1, <<>>)
  IN IF r.raised
     THEN [status |-> "raised", out |-> <<>>]
     ELSE [status |-> "returned", out |-> join(<<"\n">>, r.sql_statements)]

sql_generate_foreign_keys(table_name, column_foreign_keys) ==
  LET r == fk_loop(table_name, column_foreign_keys, 1, 1, <<>>)
  IN IF r.raised
     THEN [status |-> "raised", out |-> <<>>]
     ELSE [status |-> "returned", out |-> join(<<"\n">>, r.sql_statements) \o <<"\n">>]

-----------------------------------------------------------------------------
(* State.  df is the DataFrame of the caller (column labels and dtypes),   *)
(* caller_keys the primary-key list of the caller, tcall the last table    *)
(* call (arguments as passed in, and the returned query), fk and db the    *)
(* arguments and outcome of the foreign-key and database calls.            *)

NoTableCall ==
  [status |-> "none", columns |-> <<>>, dtypes |-> <<>>, primary_keys |-> <<>>,
   drop_table |-> FALSE, table_name |-> <<>>, query |-> <<>>]

NoFk ==
  [status |-> "none", table_name |-> <<>>, column_foreign_keys |-> <<>>, out |-> <<>>]

NoDb == [status |-> "none", db_name |-> <<>>, drop_db |-> FALSE, out |-> <<>>]

DataFrames ==
  UNION {{[columns |-> c, dtypes |-> d] : c \in [1..n -> ColumnNames], d \in [1..n -> DTypes]}
         : n \in 0..MaxCols}

Dicts ==
  {d \in SeqUpTo([column : FkColumns, foreign_key : FkRefs], MaxPairs) :
     \A i, j \in 1..Len(d) : i # j => d[i].column # d[j].column}

InitTable ==
  /\ df \in DataFrames
  /\ caller_keys \in SeqUpTo(ColumnNames, MaxKeys)
  /\ tcall = NoTableCall
  /\ fk = NoFk
  /\ db = NoDb

InitFK ==
  /\ df = [columns |-> <<>>, dtypes |-> <<>>]
  /\ caller_keys = <<>>
  /\ tcall = NoTableCall
  /\ \E t \in FkTableNames, c \in SeqUpTo(Dicts, MaxGroups) :
       fk = [status |-> "called", table_name |-> t, column_foreign_keys |-> c, out |-> <<>>]
  /\ db = NoDb

InitDB ==
  /\ df = [columns |-> <<>>, dtypes |-> <<>>]
  /\ caller_keys = <<>>
  /\ tcall = NoTableCall
  /\ fk = NoFk
  /\ \E n \in SeqUpTo(DbChars, MaxDbName) \ {<<>>}, d \in BOOLEAN :
       db = [status |-> "called", db_name |-> n, drop_db |-> d, out |-> <<>>]

\* a call of df_to_sql_create_table_query(df, drop_table, caller_keys, table_name)
TableQuery ==
  /\ \E drop_table \in BOOLEAN, table_name \in TableNames :
       LET r == df_to_sql_create_table_query(df.columns, df.dtypes, drop_table,
                                              caller_keys, table_name)
       IN /\ df' = [df EXCEPT !.columns = r.columns]
          /\ tcall' = [status |-> "returned", columns |-> df.columns,
                       dtypes |-> df.dtypes, primary_keys |-> caller_keys,
                       drop_table |-> drop_table, table_name |-> table_name,
                       query |-> r.query]
  /\ UNCHANGED <<caller_keys, fk, db>>

\* a call of sql_generate_foreign_keys(table_name, column_foreign_keys)
ForeignKeys ==
  /\ fk.status = "called"
  /\ LET r == sql_generate_foreign_keys(fk.table_name, fk.column_foreign_keys)
     IN fk' = [fk EXCEPT !.status = r.status, !.out = r.out]
  /\ UNCHANGED <<df, caller_keys, tcall, db>>

\* a call of sql_create_database(db_name, drop_db)
CreateDatabase ==
  /\ db.status = "called"
  /\ db' = [db EXCEPT !.status = "returned",
                      !.out = sql_create_database(db.db_name, db.drop_db)]
  /\ UNCHANGED <<df, caller_keys, tcall, fk>>

NextTable == TableQuery
NextFK == ForeignKeys
NextDB == CreateDatabase

SpecTable == InitTable /\ [][NextTable]_vars
SpecFK == InitFK /\ [][NextFK]_vars
SpecDB == InitDB /\ [][NextDB]_vars

-----------------------------------------------------------------------------
(* Reading a generated script back: its lines, and the names between       *)
(* backquotes.                                                             *)

\* the pieces of s between the occurrences of the character c
Fields(s, c) ==
  LET pos == SelectSeq([i \in 1..Len(s) |-> i], LAMBDA i : s[i] = c)
      n == Len(pos)
  IN [k \in 1..(n + 1) |->
        SubSeq(s, IF k = 1 THEN 1 ELSE pos[k - 1] + 1,
                  IF k = n + 1 THEN Len(s) ELSE pos[k] - 1)]

LinesOf(s) == Fields(s, "\n")

\* the names written between backquotes, in order
Quoted(line) ==
  LET F == Fields(line, BQ)
  IN [k \in 1..((Len(F) - 1) \div 2) |-> F[2 * k]]

StartsWith(s, p) == Len(s) >= Len(p) /\ SubSeq(s, 1, Len(p)) = p
EndsWith(s, p) == Len(s) >= Len(p) /\ SubSeq(s, Len(s) - Len(p) + 1, Len(s)) = p

Underscored(name) == [i \in 1..Len(name) |-> IF name[i] = "-" THEN "_" ELSE name[i]]
UnderscoredAll(names) == [i \in 1..Len(names) |-> Underscored(names[i])]

Distinct(names) == \A i, j \in 1..Len(names) : i # j => names[i] # names[j]
Range(f) == {f[i] : i \in DOMAIN f}

IsColumnLine(l) == StartsWith(l, <<" ", " ", BQ>>)
IsPrimaryKeyLine(l) == StartsWith(l, <<" ", " ", "P", "R", "I", "M", "A", "R", "Y", " ", "K", "E", "Y", " ", "(">>)
IsIndexLine(l) == StartsWith(l, <<" ", " ", "I", "N", "D", "E", "X", " ">>)

\* the lines of the last table script, by kind
BodyLines == SelectSeq(LinesOf(tcall.query), LAMBDA l : StartsWith(l, <<" ", " ">>))
ColumnLines == SelectSeq(LinesOf(tcall.query), IsColumnLine)
PrimaryKeyLines == SelectSeq(LinesOf(tcall.query), IsPrimaryKeyLine)
IndexLines == SelectSeq(LinesOf(tcall.query), IsIndexLine)

\* the declared columns that are primary keys, in declared order, each once
RECURSIVE Once(_)
Once(names) ==
  IF names = <<>> THEN <<>>
  ELSE LET r == Once(SubSeq(names, 1, Len(names) - 1))
           x == names[Len(names)]
       IN IF x \in Range(r) THEN r ELSE Append(r, x)

DeclaredKeys ==
  LET keys == Range(UnderscoredAll(tcall.primary_keys))
  IN Once(SelectSeq(UnderscoredAll(tcall.columns), LAMBDA c : c \in keys))

TableReturned == tcall.status = "returned"

-----------------------------------------------------------------------------
(* Properties of df_to_sql_create_table_query, under SpecTable.           *)

\* the primary keys of the last call are declared columns, each named once
KeysDeclaredOnce ==
  /\ Distinct(UnderscoredAll(tcall.primary_keys))
  /\ Distinct(UnderscoredAll(tcall.columns))
  /\ Range(UnderscoredAll(tcall.primary_keys)) \subseteq Range(UnderscoredAll(tcall.columns))

\* C1 as stated: when the primary-key list is non-empty the script has exactly
\* one PRIMARY KEY clause, and it lists the primary-key columns of the table in
\* the declared column order, declared columns only, each once.  Stated for
\* the calls whose keys are declared columns named once, where only the order
\* is in question.
C1_PrimaryKeyDeclaredOrder ==
  (TableReturned /\ tcall.primary_keys # <<>> /\ KeysDeclaredOnce) =>
    LET pk == PrimaryKeyLines
    IN /\ Len(pk) = 1
       /\ Quoted(pk[1]) = DeclaredKeys

\* C1 amended: when the primary-key list is non-empty the script has exactly
\* one PRIMARY KEY clause, and it lists the entries of the primary-key argument,
\* hyphens replaced, in the order of the argument (repeated and undeclared
\* names included).
C1_PrimaryKeyArgumentOrder ==
  (TableReturned /\ tcall.primary_keys # <<>>) =>
    LET pk == PrimaryKeyLines
    IN /\ Len(pk) = 1
       /\ Quoted(pk[1]) = UnderscoredAll(tcall.primary_keys)

\* a call whose key list orders two declared columns against the schema
C1_Witness ==
  /\ TableReturned
  /\ tcall.columns = <<<<"a">>, <<"a", "-", "b">>>>
  /\ tcall.primary_keys = <<<<"a", "-", "b">>, <<"a">>>>
  /\ Len(PrimaryKeyLines) = 1

\* C2 as stated: every primary-key column has exactly one INDEX clause, the
\* INDEX clauses follow the declared column order, and nothing else is indexed.
\* Stated for the calls whose keys are declared columns named once.
C2_IndexDeclaredOrder ==
  (TableReturned /\ KeysDeclaredOnce) =>
    LET keys == DeclaredKeys
        idx == IndexLines
    IN /\ Len(idx) = Len(keys)
       /\ \A i \in 1..Len(idx) : Quoted(idx[i]) = <<keys[i] \o <<"_", "i", "d", "x">>, keys[i]>>

\* C2 amended: every entry of the primary-key argument, hyphens replaced, has
\* one INDEX clause <key>_idx (<key>), the INDEX clauses follow the order of
\* the argument, and there is no other INDEX clause (none for an empty list).
C2_IndexArgumentOrder ==
  TableReturned =>
    LET keys == UnderscoredAll(tcall.primary_keys)
        idx == IndexLines
    IN /\ Len(idx) = Len(keys)
       /\ \A i \in 1..Len(idx) : Quoted(idx[i]) = <<keys[i] \o <<"_", "i", "d", "x">>, keys[i]>>

C2_Witness ==
  /\ TableReturned
  /\ tcall.columns = <<<<"a">>, <<"a", "-", "b">>>>
  /\ tcall.primary_keys = <<<<"a", "-", "b">>, <<"a">>>>
  /\ Len(IndexLines) = 2

\* C3: a call leaves the column names of the DataFrame passed in and the
\* primary-key list of the caller as they were before the call.
C3_InputsUnchanged ==
  TableReturned => (df.columns = tcall.columns /\ caller_keys = tcall.primary_keys)

\* a body line without the comma that joins it to the next one
Clause(l) == IF l # <<>> /\ l[Len(l)] = "," THEN SubSeq(l, 1, Len(l) - 1) ELSE l

\* the column identifiers of the CREATE TABLE body, in order
EmittedColumns == [i \in 1..Len(ColumnLines) |-> Quoted(ColumnLines[i])[1]]

\* C7: the definition line of a column ends with NOT NULL if the column is a
\* primary key and with NULL (without NOT) otherwise, membership being decided
\* after replacing hyphens in the column name and in the primary-key names.
C7_NotNullIffPrimaryKey ==
  TableReturned =>
    LET cl == ColumnLines
        keys == Range(UnderscoredAll(tcall.primary_keys))
    IN /\ Len(cl) = Len(tcall.columns)
       /\ \A i \in 1..Len(cl) :
            IF Underscored(tcall.columns[i]) \in keys
            THEN EndsWith(Clause(cl[i]), <<" ", "N", "O", "T", " ", "N", "U", "L", "L">>)
            ELSE /\ EndsWith(Clause(cl[i]), <<" ", "N", "U", "L", "L">>)
                 /\ ~EndsWith(Clause(cl[i]), <<" ", "N", "O", "T", " ", "N", "U", "L", "L">>)

\* column a_b with key a-b is NOT NULL, next to a column that is NULL
C7_Witness ==
  /\ TableReturned
  /\ tcall.columns = <<<<"a", "_", "b">>, <<"a">>>>
  /\ tcall.primary_keys = <<<<"a", "-", "b">>>>
  /\ EndsWith(Clause(ColumnLines[1]), <<" ", "N", "O", "T", " ", "N", "U", "L", "L">>)
  /\ EndsWith(Clause(ColumnLines[2]), <<"B", "I", "G", "I", "N", "T", " ", "N", "U", "L", "L">>)

\* C8: no column-definition line, PRIMARY KEY clause or INDEX clause holds a
\* hyphen, whatever hyphens the column names and primary-key names hold.
C8_NoHyphenInIdentifiers ==
  TableReturned =>
    LET body == BodyLines
    IN \A i \in 1..Len(body) :
         /\ IsColumnLine(body[i]) \/ IsPrimaryKeyLine(body[i]) \/ IsIndexLine(body[i])
         /\ "-" \notin Range(body[i])

\* hyphens in a column name and in a key that is not a column
C8_Witness ==
  /\ TableReturned
  /\ tcall.columns = <<<<"a", "-", "b">>>>
  /\ tcall.primary_keys = <<<<"a">>, <<"a", "-", "b">>>>
  /\ Len(ColumnLines) = 1 /\ Len(PrimaryKeyLines) = 1 /\ Len(IndexLines) = 2

\* C9: the body has one definition line per declared column, in the declared
\* order, all of them before the PRIMARY KEY and INDEX clauses, and calling
\* again with the same DataFrame, keys, table name and flag returns the same
\* script.
C9_ColumnOrder ==
  TableReturned =>
    LET body == BodyLines
        cl == SelectSeq(body, IsColumnLine)
    IN /\ Len(cl) = Len(tcall.columns)
       /\ [i \in 1..Len(cl) |-> Quoted(cl[i])[1]] = UnderscoredAll(tcall.columns)
       /\ SubSeq(body, 1, Len(cl)) = cl
       /\ \A i \in (Len(cl) + 1)..Len(body) :
            IsPrimaryKeyLine(body[i]) \/ IsIndexLine(body[i])
    /\ df_to_sql_create_table_query(df.columns, df.dtypes, tcall.drop_table,
                                    caller_keys, tcall.table_name).query = tcall.query

C9_Witness ==
  /\ TableReturned
  /\ tcall.columns = <<<<"a", "-", "b">>, <<"a">>>>
  /\ tcall.primary_keys = <<<<"a">>>>
  /\ EmittedColumns = <<<<"a", "_", "b">>, <<"a">>>>
  /\ Len(BodyLines) = 4

\* C10: when the declared column names are pairwise distinct, the column
\* identifiers of the CREATE TABLE body are pairwise distinct.
C10_DistinctColumns ==
  (TableReturned /\ Distinct(tcall.columns)) => Distinct(EmittedColumns)

-----------------------------------------------------------------------------
(* Properties of sql_generate_foreign_keys, under SpecFK.                 *)

RECURSIVE Flatten(_)
Flatten(groups) == IF groups = <<>> THEN <<>> ELSE Head(groups) \o Flatten(Tail(groups))

\* the (column, target) pairs of the call, outer group order then key order
FkPairs == Flatten(fk.column_foreign_keys)

Dots(ref) == {i \in 1..Len(ref) : ref[i] = "."}
WellFormed(ref) == Cardinality(Dots(ref)) = 1

ExpectedFkLine(pair) ==
  LET d == CHOOSE i \in Dots(pair.foreign_key) : TRUE
  IN <<"A", "L", "T", "E", "R", " ", "T", "A", "B", "L", "E", " ">> \o fk.table_name \o <<" ", "A", "D", "D", " ", "C", "O", "N", "S", "T", "R", "A", "I", "N", "T", " ", "f", "k", "_">> \o fk.table_name
     \o <<"_">> \o pair.column \o <<" ", "F", "O", "R", "E", "I", "G", "N", " ", "K", "E", "Y", " ", "(">> \o pair.column \o <<")", " ", "R", "E", "F", "E", "R", "E", "N", "C", "E", "S", " ">>
     \o SubSeq(pair.foreign_key, 1, d - 1) \o <<"(">>
     \o SubSeq(pair.foreign_key, d + 1, Len(pair.foreign_key)) \o <<")", ";">>

FkDone == fk.status \in {"returned", "raised"}

\* C5: when some target reference of the input does not hold exactly one dot,
\* the call raises and returns no string, wherever the reference stands.
C5_MalformedReferenceRaises ==
  (FkDone /\ \E i \in 1..Len(FkPairs) : ~WellFormed(FkPairs[i].foreign_key)) =>
    (fk.status = "raised" /\ fk.out = <<>>)

\* a malformed reference in the second group, after a well-formed pair
C5_Witness ==
  /\ fk.status = "raised"
  /\ Len(fk.column_foreign_keys) = 2
  /\ Len(FkPairs) = 2
  /\ FkPairs[1].foreign_key = <<"u", ".", "i">>
  /\ FkPairs[2].foreign_key = <<"u", ".", "i", ".", "j">>

\* C6: when every reference is well-formed the call returns one ALTER TABLE
\* line per pair, in outer group order and then key order, joined by newlines
\* and followed by one newline; with no pair the result is a lone newline.
C6_OneLinePerPair ==
  (FkDone /\ \A i \in 1..Len(FkPairs) : WellFormed(FkPairs[i].foreign_key)) =>
    /\ fk.status = "returned"
    /\ IF FkPairs = <<>>
       THEN fk.out = <<"\n">>
       ELSE LinesOf(fk.out) =
              [i \in 1..Len(FkPairs) |-> ExpectedFkLine(FkPairs[i])] \o <<<<>>>>

\* two groups, the first with two pairs: three lines
C6_Witness ==
  /\ fk.status = "returned"
  /\ Len(fk.column_foreign_keys) = 2
  /\ Len(fk.column_foreign_keys[1]) = 2
  /\ Len(fk.column_foreign_keys[2]) = 1
  /\ fk.column_foreign_keys[1][1].column = <<"d">>
  /\ Len(LinesOf(fk.out)) = 4

-----------------------------------------------------------------------------
(* Properties of sql_create_database, under SpecDB.                       *)

DropLine == <<"D", "R", "O", "P", " ", "D", "A", "T", "A", "B", "A", "S", "E", " ", "I", "F", " ", "E", "X", "I", "S", "T", "S", " ">> \o db.db_name \o <<";">>
CreateLine == <<"C", "R", "E", "A", "T", "E", " ", "D", "A", "T", "A", "B", "A", "S", "E", " ">> \o db.db_name \o <<";">>
UseLine == <<"U", "S", "E", " ">> \o db.db_name \o <<";">>

\* C4 as stated: the script is the DROP DATABASE line (if and only if drop_db),
\* the CREATE DATABASE line and the USE line followed by a blank line, so it
\* ends with USE <name>; and two newlines.
C4_UseThenBlankLine ==
  db.status = "returned" =>
    /\ LinesOf(db.out) =
         (IF db.drop_db THEN <<DropLine>> ELSE <<>>) \o <<CreateLine, UseLine, <<>>, <<>>>>
    /\ EndsWith(db.out, UseLine \o <<"\n", "\n">>)

\* C4 amended: the script is the DROP DATABASE line (if and only if drop_db),
\* the CREATE DATABASE line and the USE line, each followed by one newline, so
\* it ends with USE <name>; and a single newline, with no blank line.
C4_UseThenNewline ==
  db.status = "returned" =>
    /\ LinesOf(db.out) =
         (IF db.drop_db THEN <<DropLine>> ELSE <<>>) \o <<CreateLine, UseLine, <<>>>>
    /\ EndsWith(db.out, UseLine \o <<"\n">>)
    /\ ~EndsWith(db.out, <<"\n", "\n">>)

C4_Witness ==
  /\ db.status = "returned"
  /\ db.db_name = <<"s", "h", "o", "p">>
  /\ db.drop_db
  /\ db.out = <<"D", "R", "O", "P", " ", "D", "A", "T", "A", "B", "A", "S", "E", " ", "I", "F", " ", "E", "X", "I", "S", "T", "S", " ", "s", "h", "o", "p", ";", "\n", "C", "R", "E", "A", "T", "E", " ", "D", "A", "T", "A", "B", "A", "S", "E", " ", "s", "h", "o", "p", ";", "\n", "U", "S", "E", " ", "s", "h", "o", "p", ";", "\n">>

=============================================================================
